---- MODULE Spec2Model ----
(***************************************************************************)
(* Model of nerfstudio/process_data/equirect_utils.py: the crop-aware      *)
(* sampling grid (_crop_bottom, _crop_top, _crop_bound_arr_vertical and    *)
(* the direction builder that opens each generator) and the per-panorama   *)
(* reprojection loop of the three generators.                              *)
(*                                                                         *)
(* Numbers.  Crop fractions are held in percent (crop_factor[i] = c means  *)
(* the Python value c/100).  Angles are held in units of 1/80 degree, so   *)
(* that 180*c/100, 360*c/100, fov/2 and the two successive halvings and    *)
(* quarterings of the redistribution are all exact integers: the model     *)
(* computes in exact rationals where Python computes in binary floats.     *)
(* Radians are held as their coefficient of pi/180.                        *)
(***************************************************************************)
EXTENDS Integers, Sequences, FiniteSets, TLC

\* ------------------------------------------------------------------ bounds
\* crop fractions of the grid specification: top/bottom are 5%*k,
\* k in -1..MaxCropIdx, left/right are 25%*k, k in 0..MaxSideIdx
MaxCropIdx == 21
MaxSideIdx == 5
\* samples_per_im is drawn from {8} and 13..MaxSamples
MaxSamples == 14
\* number of entries of the image directory
MaxFiles == 2

\* ------------------------------------------------------- number encoding
\* d degrees, in angle units
Deg(d) == 80 * d
\* 180 * (c/100) degrees, in angle units        (degrees_chopped)
Chopped(c) == 144 * c
\* 360 * (c/100) degrees, in angle units
Turn(c) == 288 * c
\* fov / 2 degrees, in angle units
HalfFov(f) == 40 * f

\* the "removed" sentinel (Python None) and a finite entry
None == [none |-> TRUE, val |-> 0]
Active(v) == [none |-> FALSE, val |-> v]

\* bound_arr = [-45, 0, 45]
InitialBounds == [i \in 0..2 |-> Active(Deg(45 * (i - 1)))]

\* a slip that forgets the exponent of 2 ** (i - j)
Pow2_flat(n) == 2
\* 2 ** (i - j)
Pow2(n) == 2 ^ n

\* a Python call either returns a value or raises
Ret(a) == [raised |-> FALSE, arr |-> a]
Raise(a) == [raised |-> TRUE, arr |-> a]

\* ------------------------------------------------------------ file names
\* a file name is a sequence of one-character strings ("a.png" is
\* <<"a", ".", "p", "n", "g">>), so that the slicing, suffix tests and
\* replacements of the code can be computed
PNG == <<".", "p", "n", "g">>
JPG == <<".", "j", "p", "g">>
JPEG == <<".", "j", "p", "e", "g">>
EXR == <<".", "e", "x", "r">>

\* str.lower(), on the alphabet of the modelled names
LowerChar(c) ==
    CASE c = "P" -> "p" [] c = "N" -> "n" [] c = "G" -> "g"
      [] c = "J" -> "j" [] c = "E" -> "e" [] c = "X" -> "x"
      [] c = "R" -> "r" [] OTHER -> c
lower(s) == [k \in 1..Len(s) |-> LowerChar(s[k])]

\* str.endswith(suffix), and endswith of a tuple of suffixes
endswith(s, suf) ==
    /\ Len(s) >= Len(suf)
    /\ SubSeq(s, Len(s) - Len(suf) + 1, Len(s)) = suf
endswith_any(s, sufs) == \E suf \in sufs : endswith(s, suf)

\* str.replace(old, new): every non-overlapping occurrence, left to right
RECURSIVE replace(_, _, _)
replace(s, old, new) ==
    IF Len(s) < Len(old) THEN s
    ELSE IF SubSeq(s, 1, Len(old)) = old
         THEN new \o replace(SubSeq(s, Len(old) + 1, Len(s)), old, new)
         ELSE <<s[1]>> \o replace(Tail(s), old, new)

\* i[:-4]
drop4(s) == SubSeq(s, 1, Len(s) - 4)

\* i.split(".")[0]
RECURSIVE before_dot(_)
before_dot(s) ==
    IF s = << >> THEN << >>
    ELSE IF Head(s) = "." THEN << >>
    ELSE <<Head(s)>> \o before_dot(Tail(s))

\* the characters of the modelled names, in code point order
Alphabet ==
    <<".", "E", "G", "J", "N", "P", "R", "X", "a", "b", "c", "d", "e", "g",
      "h", "j", "n", "p", "r", "s", "t", "x">>
ord(c) == CHOOSE k \in DOMAIN Alphabet : Alphabet[k] = c

\* s < t for Python strings
RECURSIVE str_less(_, _)
str_less(s, t) ==
    IF t = << >> THEN FALSE
    ELSE IF s = << >> THEN TRUE
    ELSE IF Head(s) # Head(t) THEN ord(Head(s)) < ord(Head(t))
    ELSE str_less(Tail(s), Tail(t))

\* a slip that leaves the listing in the order os.listdir gave
sorted_not(l) == l

\* sorted(files_list): by insertion
RECURSIVE insert_sorted(_, _)
insert_sorted(x, l) ==
    IF l = << >> THEN <<x>>
    ELSE IF str_less(Head(l), x) THEN <<Head(l)>> \o insert_sorted(x, Tail(l))
    ELSE <<x>> \o l
RECURSIVE sort_from(_, _)
sort_from(l, acc) ==
    IF l = << >> THEN acc ELSE sort_from(Tail(l), insert_sorted(Head(l), acc))
sorted(l) == sort_from(l, << >>)

\* ------------------------------------------------------------------ poses
\* a matrix entry <<a, b>> is the number (a + b*sqrt(2)) / 4: the sines and
\* cosines of the multiples of 45 degrees and their products are exact
Num(n) == <<4 * n, 0>>
NAdd(x, y) == <<x[1] + y[1], x[2] + y[2]>>
NNeg(x) == <<-x[1], -x[2]>>
NSub(x, y) == NAdd(x, NNeg(y))
NMul(x, y) ==
    <<(x[1] * y[1] + 2 * x[2] * y[2]) \div 4, (x[1] * y[2] + x[2] * y[1]) \div 4>>

\* cos and sin of an angle (angle units) that is a multiple of 45 degrees
Octant(a) == (a \div Deg(45)) % 8
cos(a) == <<Num(1), <<0, 2>>, Num(0), <<0, -2>>,
            Num(-1), <<0, -2>>, Num(0), <<0, 2>>>>[Octant(a) + 1]
sin(a) == <<Num(0), <<0, 2>>, Num(1), <<0, 2>>,
            Num(0), <<0, -2>>, Num(-1), <<0, -2>>>>[Octant(a) + 1]

\* a rotation is an exact 3x3 matrix, or a term the model does not evaluate
\* (an angle that is not a multiple of 45 degrees)
Exact(m) == [exact |-> TRUE, m |-> m]
Term(op, args) == [exact |-> FALSE, m |-> <<op, args>>]

Identity3 ==
    <<<<Num(1), Num(0), Num(0)>>, <<Num(0), Num(1), Num(0)>>,
      <<Num(0), Num(0), Num(1)>>>>
rot_x(a) ==
    <<<<Num(1), Num(0), Num(0)>>, <<Num(0), cos(a), NNeg(sin(a))>>,
      <<Num(0), sin(a), cos(a)>>>>
rot_y(a) ==
    <<<<cos(a), Num(0), sin(a)>>, <<Num(0), Num(1), Num(0)>>,
      <<NNeg(sin(a)), Num(0), cos(a)>>>>
rot_z(a) ==
    <<<<cos(a), NNeg(sin(a)), Num(0)>>, <<sin(a), cos(a), Num(0)>>,
      <<Num(0), Num(0), Num(1)>>>>

mat_mul(A, B) ==
    LET e(r, c) == NAdd(NAdd(NMul(A[r][1], B[1][c]), NMul(A[r][2], B[2][c])),
                        NMul(A[r][3], B[3][c]))
    IN  <<<<e(1, 1), e(1, 2), e(1, 3)>>, <<e(2, 1), e(2, 2), e(2, 3)>>,
          <<e(3, 1), e(3, 2), e(3, 3)>>>>

\* numpy.linalg.inv of a 3x3 matrix of determinant 1: its adjugate
mat_inv(A) ==
    LET nx(k) == (k % 3) + 1
        cof(r, c) == NSub(NMul(A[nx(r)][nx(c)], A[nx(nx(r))][nx(nx(c))]),
                          NMul(A[nx(r)][nx(nx(c))], A[nx(nx(r))][nx(c)]))
    IN  <<<<cof(1, 1), cof(2, 1), cof(3, 1)>>, <<cof(1, 2), cof(2, 2), cof(3, 2)>>,
          <<cof(1, 3), cof(2, 3), cof(3, 3)>>>>

\* Rotation.from_euler('XYZ', [x, y, z]).as_matrix(): intrinsic rotations
from_euler(x, y, z) ==
    IF x % Deg(45) = 0 /\ y % Deg(45) = 0 /\ z % Deg(45) = 0
    THEN Exact(mat_mul(mat_mul(rot_x(x), rot_y(y)), rot_z(z)))
    ELSE Term("from_euler", <<x, y, z>>)

inv(R) == IF R.exact THEN Exact(mat_inv(R.m)) ELSE Term("inv", <<R>>)

matmul(A, B) ==
    IF A.exact /\ B.exact THEN Exact(mat_mul(A.m, B.m))
    ELSE Term("matmul", <<A, B>>)

\* a slip that leaves out the product with the panorama's rotation
perspective_rotation_alone(pano_rotation, v_deg, u_deg) ==
    inv(from_euler(v_deg, -u_deg, 0))

\* inv(Rotation.from_euler('XYZ', [v_rad, -u_rad, 0])), then
\* current_pano_camera_rotation @ perspective_camera_rotation
perspective_rotation(pano_rotation, v_deg, u_deg) ==
    matmul(pano_rotation, inv(from_euler(v_deg, -u_deg, 0)))

\* a slip that builds the pose from the rotation alone
perspective_pose_fresh(pano_pose, rotation) ==
    [frame |-> [R |-> rotation, t |-> <<Num(0), Num(0), Num(0)>>,
                bottom |-> pano_pose.bottom],
     stored |-> pano_pose]

\* perspective_camera_pose = current_pano_camera_pose.copy();
\* perspective_camera_pose[:3, :3] = perspective_camera_rotation:
\* the pose of the frame, and the array the dictionary still holds (the
\* assignment writes into the copy)
perspective_pose(pano_pose, rotation) ==
    [frame |-> [pano_pose EXCEPT !.R = rotation], stored |-> pano_pose]

VARIABLES
    generator,        \* which generator runs: "standard", "two_exposures", "GT"
    samples_per_im,   \* argument
    crop_factor,      \* argument, function 0..3 -> percent (top, bottom, left, right)
    mask_dir,         \* argument: "None" or a directory
    hdr_dir,          \* argument: "None" or a directory (standard generator)
    is_HDR,           \* argument (standard generator)
    HDR_planar_image_size,  \* argument (standard generator): <<width, height>>,
                      \* <<0, 0>> for the default (None, None)
    use_mask,         \* argument (GT generator)
    clip_output,      \* argument (GT generator)
    use_exposure,     \* argument (GT generator)
    metadata,         \* the frames of the file at metadata_path: file_path -> pose
    listing,          \* os.listdir(frame_dir), in the order the loop sees it;
                      \* empty until the loop reads the directory
    files_list,       \* the list the loop walks: the listing, sorted in the GT
                      \* generator
    pc,               \* position in the generator
    error,            \* "none", or the error that ended the run
    fov,              \* degrees
    left_bound,       \* angle units
    right_bound,      \* angle units
    bound_arr,        \* function 0..2 -> entry
    yaw_pitch_pairs,  \* sequence of <<yaw, pitch>> in angle units
    dirs,             \* output directories created so far
    idx,              \* number of listing entries the loop has finished
    count,            \* index of the next direction of the current panorama
    raster,           \* local raster variables: name -> panorama whose data it holds
    warps,            \* calls of the warp so far
    written,          \* files written by cv2.imwrite so far
    camera_to_worlds_panos,  \* GT: the poses read from the metadata
    deleted,          \* directories on which "if isdir: shutil.rmtree" has run
    absent,           \* the companion a read found missing, or "none"
    frames,           \* GT: the frame records appended so far
    manifest,         \* GT: the documents dumped to transforms.json so far
    camera_type,      \* main: self.camera_type
    eval_data,        \* main: self.eval_data, "None" or a directory
    skip_image_processing,  \* main: self.skip_image_processing
    skip_colmap,      \* main: self.skip_colmap
    colmap_model_path,      \* main: "default" or "custom"
    require_cameras_exist,  \* main: local
    perspective_masks,      \* main: local, "unassigned" until assigned
    perspective_hdrs        \* main: local, "unassigned" until assigned

mainargs == <<eval_data, skip_image_processing, skip_colmap, colmap_model_path>>
mainstate == <<camera_type, require_cameras_exist, perspective_masks,
               perspective_hdrs>>
callargs == <<generator, samples_per_im, crop_factor, mask_dir, hdr_dir, is_HDR,
              HDR_planar_image_size,
              use_mask, clip_output, use_exposure, metadata>>
callvars == <<callargs, mainargs, mainstate>>
cfgvars == <<callvars, listing, files_list>>
gridstate == <<fov, left_bound, right_bound, bound_arr, yaw_pitch_pairs>>
loopstate == <<dirs, idx, count, raster, warps, written>>
auxstate == <<camera_to_worlds_panos, deleted, absent, frames, manifest>>
vars == <<cfgvars, pc, error, gridstate, loopstate, auxstate>>

\* ------------------------------------------------------ CropBoundSolver
\* the scan of _crop_bottom from index i downwards (reversed(enumerate))
RECURSIVE crop_bottom_scan(_, _, _, _)
crop_bottom_scan(arr, i, new_bottom_start, half) ==
    IF i < 0 THEN Ret(arr)
    ELSE IF arr[i].none THEN Raise(arr)            \* None > float: TypeError
    ELSE IF arr[i].val > new_bottom_start + half
         THEN crop_bottom_scan([arr EXCEPT ![i] = None], i - 1,
                               new_bottom_start, half)
    ELSE IF arr[i].val > new_bottom_start
         THEN LET diff == arr[i].val - new_bottom_start IN
              IF \E j \in 0..(i - 1) : arr[j].none
              THEN Raise(arr)                       \* None -= float: TypeError
              ELSE Ret([j \in 0..2 |->
                         IF j = i THEN Active(new_bottom_start)
                         ELSE IF j < i
                              THEN Active(arr[j].val - (diff \div Pow2(i - j)))
                              ELSE arr[j]])
    ELSE crop_bottom_scan(arr, i - 1, new_bottom_start, half)

_crop_bottom(arr, f, c) ==
    LET degrees_chopped == Chopped(c)
        new_bottom_start == Deg(90) - degrees_chopped - HalfFov(f)
    IN  crop_bottom_scan(arr, 2, new_bottom_start, HalfFov(f))

\* the scan of _crop_top from index i upwards (enumerate)
RECURSIVE crop_top_scan(_, _, _, _)
crop_top_scan(arr, i, new_top_start, half) ==
    IF i > 2 THEN Ret(arr)
    ELSE IF arr[i].none THEN Raise(arr)            \* None < float: TypeError
    ELSE IF arr[i].val < new_top_start - half
         THEN crop_top_scan([arr EXCEPT ![i] = None], i + 1,
                            new_top_start, half)
    ELSE IF arr[i].val < new_top_start
         THEN LET diff == new_top_start - arr[i].val IN
              IF \E j \in (i + 1)..2 : arr[j].none
              THEN Raise(arr)                       \* None += float: TypeError
              ELSE Ret([j \in 0..2 |->
                         IF j = i THEN Active(new_top_start)
                         ELSE IF j > i
                              THEN Active(arr[j].val + (diff \div Pow2(j - i)))
                              ELSE arr[j]])
    ELSE crop_top_scan(arr, i + 1, new_top_start, half)

\* a slip that leaves fov / 2 out of new_top_start
_crop_top_nofov(arr, f, c) ==
    crop_top_scan(arr, 0, Deg(-90) + Chopped(c), HalfFov(f))

_crop_top(arr, f, c) ==
    LET degrees_chopped == Chopped(c)
        new_top_start == Deg(-90) + degrees_chopped + HalfFov(f)
    IN  crop_top_scan(arr, 0, new_top_start, HalfFov(f))

\* a slip that runs a pass for a zero fraction too
side_requested_ge(c) == c >= 0
\* "if crop_factor[k] > 0": the pass of a side runs only for a positive fraction
side_requested(c) == c > 0

\* ---------------------------------------------------- SampleGridBuilder
\* a slip that includes the stop value
arange_inclusive(start, stop, step) ==
    LET n == ((stop - start) \div step) + 1
        len == IF n > 0 THEN n ELSE 0
    IN  [k \in 1..len |-> start + (k - 1) * step]

\* np.arange(start, stop, step): ceil((stop - start) / step) values
arange(start, stop, step) ==
    LET n == -((start - stop) \div step)
        len == IF n > 0 THEN n ELSE 0
    IN  [k \in 1..len |-> start + (k - 1) * step]

\* for i in np.arange(left_bound, right_bound, step): append((i, pitch))
ring(entry, step) ==
    IF entry.none THEN << >>
    ELSE LET yaws == arange(left_bound, right_bound, Deg(step))
         IN  [k \in 1..Len(yaws) |-> <<yaws[k], entry.val>>]

\* a slip that gives every ring the step of the middle ring
ring_step_uniform(samples, r) == IF samples = 8 THEN 90 ELSE 60

\* yaw step of ring index r for the preset
ring_step(samples, r) ==
    IF samples = 8 THEN (IF r = 1 THEN 90 ELSE 180)
    ELSE (IF r = 1 THEN 60 ELSE 90)

\* a slip that tests only "i > 1"
Validate_upper ==
    /\ pc = "validate"
    /\ IF \E i \in 0..3 : crop_factor[i] > 100
       THEN pc' = "exit" /\ error' = "exit1"
       ELSE /\ pc' = IF generator = "GT" THEN "metadata" ELSE "bounds"
            /\ error' = error
    /\ UNCHANGED <<cfgvars, gridstate, loopstate, auxstate>>

\* for i in crop_factor: if i < 0 or i > 1: sys.exit(1)
Validate ==
    /\ pc = "validate"
    /\ IF \E i \in 0..3 : crop_factor[i] < 0 \/ crop_factor[i] > 100
       THEN pc' = "exit" /\ error' = "exit1"
       ELSE /\ pc' = IF generator = "GT" THEN "metadata" ELSE "bounds"
            /\ error' = error
    /\ UNCHANGED <<cfgvars, gridstate, loopstate, auxstate>>

\* fov = 120; yaw_pitch_pairs = []; left_bound, right_bound = -180, 180; ...
HorizontalBounds ==
    /\ pc = "bounds"
    /\ fov' = 120
    /\ yaw_pitch_pairs' = << >>
    /\ left_bound' = IF crop_factor[3] > 0 THEN Deg(-180) + Turn(crop_factor[3])
                     ELSE Deg(-180)
    /\ right_bound' = IF crop_factor[2] > 0 THEN Deg(180) - Turn(crop_factor[2])
                      ELSE Deg(180)
    /\ pc' = "preset"
    /\ UNCHANGED <<cfgvars, error, bound_arr, loopstate, auxstate>>

\* a slip that writes "else" for "elif samples_per_im == 14"
SelectPreset_else ==
    /\ pc = "preset"
    /\ fov' = IF samples_per_im = 8 THEN 120 ELSE 110
    /\ bound_arr' = InitialBounds
    /\ pc' = "crop_bottom"
    /\ UNCHANGED <<cfgvars, error, left_bound, right_bound, yaw_pitch_pairs,
                   loopstate, auxstate>>

\* if samples_per_im == 8: fov = 120 ... elif samples_per_im == 14: fov = 110
SelectPreset ==
    /\ pc = "preset"
    /\ IF samples_per_im = 8
       THEN fov' = 120 /\ bound_arr' = InitialBounds /\ pc' = "crop_bottom"
       ELSE IF samples_per_im = 14
       THEN fov' = 110 /\ bound_arr' = InitialBounds /\ pc' = "crop_bottom"
       ELSE UNCHANGED <<fov, bound_arr>> /\ pc' = "built"
    /\ UNCHANGED <<cfgvars, error, left_bound, right_bound, yaw_pitch_pairs,
                   loopstate, auxstate>>

\* _crop_bound_arr_vertical: if crop_factor[1] > 0: bound_arr = _crop_bottom(...)
CropBottom ==
    /\ pc = "crop_bottom"
    /\ IF side_requested(crop_factor[1])
       THEN LET r == _crop_bottom(bound_arr, fov, crop_factor[1]) IN
            IF r.raised
            THEN pc' = "raised" /\ error' = "TypeError" /\ UNCHANGED bound_arr
            ELSE pc' = "crop_top" /\ error' = error /\ bound_arr' = r.arr
       ELSE pc' = "crop_top" /\ UNCHANGED <<error, bound_arr>>
    /\ UNCHANGED <<cfgvars, fov, left_bound, right_bound, yaw_pitch_pairs,
                   loopstate, auxstate>>

\* _crop_bound_arr_vertical: if crop_factor[0] > 0: bound_arr = _crop_top(...)
CropTop ==
    /\ pc = "crop_top"
    /\ IF side_requested(crop_factor[0])
       THEN LET r == _crop_top(bound_arr, fov, crop_factor[0]) IN
            IF r.raised
            THEN pc' = "raised" /\ error' = "TypeError" /\ UNCHANGED bound_arr
            ELSE pc' = "rings" /\ error' = error /\ bound_arr' = r.arr
       ELSE pc' = "rings" /\ UNCHANGED <<error, bound_arr>>
    /\ UNCHANGED <<cfgvars, fov, left_bound, right_bound, yaw_pitch_pairs,
                   loopstate, auxstate>>

\* the three "if bound_arr[k] is not None: for i in np.arange(...)" blocks,
\* in source order: index 1, index 2, index 0
EmitRings ==
    /\ pc = "rings"
    /\ yaw_pitch_pairs' = yaw_pitch_pairs
            \o ring(bound_arr[1], ring_step(samples_per_im, 1))
            \o ring(bound_arr[2], ring_step(samples_per_im, 2))
            \o ring(bound_arr[0], ring_step(samples_per_im, 0))
    /\ pc' = "built"
    /\ UNCHANGED <<cfgvars, error, fov, left_bound, right_bound, bound_arr,
                   loopstate, auxstate>>

\* metadata_dict = io.load_from_json(metadata_path); camera_to_worlds_panos
LoadMetadata ==
    /\ pc = "metadata"
    /\ camera_to_worlds_panos' = [loaded |-> TRUE, poses |-> metadata]
    /\ pc' = "bounds"
    /\ UNCHANGED <<cfgvars, error, gridstate, loopstate, deleted, absent, frames,
                   manifest>>

\* ------------------------------------------------------------ Reprojector
\* the argument planar_image_size: <<width, height>> of the projections
planar_image_size == <<512, 512>>

\* Equi2Pers(height, width, fov_x=fov, mode="bilinear")
equi2pers ==
    [size |-> planar_image_size, fov_x |-> fov, mode |-> "bilinear"]
\* the instance built from HDR_planar_image_size; "else: equi2pers_hdr = equi2pers"
equi2pers_hdr ==
    IF hdr_dir # "None"
    THEN [size |-> HDR_planar_image_size, fov_x |-> fov, mode |-> "bilinear"]
    ELSE equi2pers

\* torch.pi * deg / 180.0: the angle as a coefficient of pi/180
radians(deg) == [pi_over_180 |-> deg]

\* a slip that swaps pitch and yaw in the rots of the companion channels
warp_swapped(inst, channel, pano, k, v_rad, u_rad, clip) ==
    [channel |-> channel, src |-> raster[channel], pano |-> pano, index |-> k,
     roll |-> 0,
     pitch |-> IF channel = "im" THEN v_rad ELSE u_rad,
     yaw |-> IF channel = "im" THEN u_rad ELSE v_rad,
     fov |-> inst.fov_x, mode |-> inst.mode, size |-> inst.size, clip |-> clip]

\* one call inst(src, rots={"roll": 0, "pitch": v_rad, "yaw": u_rad}, clip_output=clip)
warp(inst, channel, pano, k, v_rad, u_rad, clip) ==
    [channel |-> channel, src |-> raster[channel], pano |-> pano, index |-> k,
     roll |-> 0, pitch |-> v_rad, yaw |-> u_rad,
     fov |-> inst.fov_x, mode |-> inst.mode, size |-> inst.size, clip |-> clip]

\* one cv2.imwrite(f"{dir}/{i[:-4]}_{count}.{ext}", data)
output(dir, i, k, ext, dtype) ==
    [dir |-> dir, stem |-> drop4(i), index |-> k, ext |-> ext, dtype |-> dtype]

\* the colour output: float EXR for an .exr panorama, 8-bit PNG otherwise
colour_output(i, k) ==
    IF endswith(lower(i), EXR)
    THEN output("planar_projections", i, k, "exr", "float32")
    ELSE output("planar_projections", i, k, "png", "uint8")

\* the files of the image directory, and the lists os.listdir can return
FileNames ==
    {<<"a", ".", "p", "n", "g">>,
     <<"c", ".", "j", "p", "e", "g">>, <<"d", ".", "e", "x", "r">>,
     <<"e", ".", "P", "N", "G">>, <<"n", ".", "t", "x", "t">>,
     <<"r", "h", "s", ".", "e", "x", "r">>}

Listings ==
    {l \in UNION {[1..n -> FileNames] : n \in 0..MaxFiles} :
        \A j, k \in DOMAIN l : j # k => l[j] # l[k]}

\* output_dir.mkdir(...) and the directories of the other channels; the GT
\* generator first removes a directory an earlier run left:
\* "if os.path.isdir(output_dir): shutil.rmtree(output_dir)"; then the
\* loop reads the directory (files_list = sorted(files_list) in the GT
\* generator)
MakeDirs ==
    /\ pc = "built"
    /\ dirs' =
         IF generator = "standard"
         THEN {"planar_projections"}
              \cup (IF mask_dir # "None" THEN {"mask_planar_projections"} ELSE {})
              \cup (IF hdr_dir # "None" THEN {"hdr_planar_projections"} ELSE {})
         ELSE IF generator = "two_exposures"
         THEN {"planar_projections", "mask_e1_planar_projections",
               "mask_e2_planar_projections", "e1_planar_projections",
               "e2_planar_projections"}
         ELSE {"planar_projections"}
              \cup (IF use_mask THEN {"mask/planar_projections"} ELSE {})
    /\ deleted' = IF generator = "GT" THEN dirs' ELSE {}
    /\ listing' \in Listings       \* os.listdir(frame_dir)
    /\ files_list' = IF generator = "GT" THEN sorted(listing') ELSE listing'
    /\ pc' = "files"
    /\ UNCHANGED <<callvars, error, gridstate, idx, count, raster, warps, written,
                   camera_to_worlds_panos, absent, frames, manifest>>

\* the extension filter of the loop over the listing
accepted(i) ==
    IF generator = "two_exposures"
    THEN endswith_any(lower(i), {JPG, PNG, JPEG})
    ELSE endswith_any(lower(i), {JPG, PNG, JPEG, EXR})

\* a listing entry the filter rejects: the loop moves on (GT: idx += 1)
SkipFile ==
    /\ pc = "files"
    /\ idx < Len(files_list)
    /\ ~accepted(files_list[idx + 1])
    /\ idx' = idx + 1
    /\ UNCHANGED <<cfgvars, pc, error, gridstate, dirs, count, raster, warps,
                   written, auxstate>>

\* hdr_addr / e1_addr / e2_addr: the companion name derived from the panorama
\* name, or "unsupported" where the code raises the format exception
exr_name(i) ==
    IF endswith(i, PNG) THEN replace(i, PNG, EXR)
    ELSE IF endswith(i, JPG) THEN replace(i, JPG, EXR)
    ELSE <<"unsupported">>

Stop(kind) ==
    /\ pc' = "raised"
    /\ error' = kind

\* "if not os.path.isfile(addr): raise Exception(f'... {addr} does not exist!!!')"
Missing(channel) ==
    /\ Stop("MissingCompanion")
    /\ absent' = channel

\* standard generator: read the panorama, then its mask and its HDR companion
LoadStandard ==
    /\ pc = "files"
    /\ generator = "standard"
    /\ idx < Len(files_list)
    /\ accepted(files_list[idx + 1])
    /\ LET i == files_list[idx + 1] IN
       \E mask_isfile \in BOOLEAN, hdr_isfile \in BOOLEAN :
          IF mask_dir # "None" /\ ~mask_isfile
          THEN /\ Missing("mask")
               /\ raster' = [raster EXCEPT !["im"] = i]
               /\ UNCHANGED count
          ELSE IF hdr_dir # "None" /\ is_HDR /\ exr_name(i) = <<"unsupported">>
          THEN /\ Stop("UnsupportedFormat")
               /\ raster' = [raster EXCEPT
                    !["im"] = i,
                    !["mask"] = IF mask_dir # "None" THEN i ELSE @]
               /\ UNCHANGED <<count, absent>>
          ELSE IF hdr_dir # "None" /\ ~hdr_isfile
          THEN /\ Missing("hdr")
               /\ raster' = [raster EXCEPT
                    !["im"] = i,
                    !["mask"] = IF mask_dir # "None" THEN i ELSE @]
               /\ UNCHANGED count
          ELSE /\ raster' = [raster EXCEPT
                    !["im"] = i,
                    !["mask"] = IF mask_dir # "None" THEN i ELSE @,
                    !["hdr"] = IF hdr_dir # "None" THEN i ELSE @]
               /\ count' = 0
               /\ pc' = "directions"
               /\ UNCHANGED <<error, absent>>
    /\ UNCHANGED <<cfgvars, gridstate, dirs, idx, warps, written,
                   camera_to_worlds_panos, deleted, frames, manifest>>

\* "if is_HDR: cv2.imwrite(...exr, pers_hdr) else: cv2.imwrite(...png, pers_hdr)"
hdr_output(i, k) ==
    output("hdr_planar_projections", i, k, IF is_HDR THEN "exr" ELSE "png",
           "float32")

\* standard generator: one iteration of "for u_deg, v_deg in yaw_pitch_pairs"
WarpStandard ==
    /\ pc = "directions"
    /\ generator = "standard"
    /\ count < Len(yaw_pitch_pairs)
    /\ LET i == files_list[idx + 1]
           u_deg == yaw_pitch_pairs[count + 1][1]
           v_deg == yaw_pitch_pairs[count + 1][2]
           v_rad == radians(v_deg)
           u_rad == radians(u_deg)
       IN
       /\ warps' = warps
            \cup {warp(equi2pers, "im", i, count, v_rad, u_rad, TRUE)}
            \cup (IF mask_dir # "None"
                  THEN {warp(equi2pers_hdr, "mask", i, count, v_rad, u_rad, TRUE)}
                  ELSE {})
            \cup (IF hdr_dir # "None"
                  THEN {warp(equi2pers_hdr, "hdr", i, count, v_rad, u_rad, FALSE)}
                  ELSE {})
       /\ written' = written
            \cup {colour_output(i, count)}
            \cup (IF mask_dir # "None"
                  THEN {output("mask_planar_projections", i, count, "png", "uint8")}
                  ELSE {})
            \cup (IF hdr_dir # "None" THEN {hdr_output(i, count)} ELSE {})
    /\ count' = count + 1
    /\ UNCHANGED <<cfgvars, pc, error, gridstate, dirs, idx, raster, auxstate>>

\* two-exposure generator: read the panorama, both masks and both exposures
LoadTwoExposures ==
    /\ pc = "files"
    /\ generator = "two_exposures"
    /\ idx < Len(files_list)
    /\ accepted(files_list[idx + 1])
    /\ LET i == files_list[idx + 1]
           got(chs) == [c \in DOMAIN raster |-> IF c \in chs THEN i ELSE raster[c]]
       IN
       \E isfile \in [{"mask_e1", "mask_e2", "e1", "e2"} -> BOOLEAN] :
          IF ~isfile["mask_e1"]
          THEN Missing("mask_e1") /\ raster' = got({"im"})
               /\ UNCHANGED count
          ELSE IF ~isfile["mask_e2"]
          THEN Missing("mask_e2") /\ raster' = got({"im", "mask_e1"})
               /\ UNCHANGED count
          ELSE IF exr_name(i) = <<"unsupported">>
          THEN Stop("UnsupportedFormat")
               /\ raster' = got({"im", "mask_e1", "mask_e2"})
               /\ UNCHANGED <<count, absent>>
          ELSE IF ~isfile["e1"]
          THEN Missing("e1")
               /\ raster' = got({"im", "mask_e1", "mask_e2"})
               /\ UNCHANGED count
          ELSE IF ~isfile["e2"]
          THEN Missing("e2")
               /\ raster' = got({"im", "mask_e1", "mask_e2", "e1"})
               /\ UNCHANGED count
          ELSE /\ raster' = got({"im", "mask_e1", "mask_e2", "e1", "e2"})
               /\ count' = 0
               /\ pc' = "directions"
               /\ UNCHANGED <<error, absent>>
    /\ UNCHANGED <<cfgvars, gridstate, dirs, idx, warps, written,
                   camera_to_worlds_panos, deleted, frames, manifest>>

\* two-exposure generator: one iteration of the direction loop
WarpTwoExposures ==
    /\ pc = "directions"
    /\ generator = "two_exposures"
    /\ count < Len(yaw_pitch_pairs)
    /\ LET i == files_list[idx + 1]
           u_deg == yaw_pitch_pairs[count + 1][1]
           v_deg == yaw_pitch_pairs[count + 1][2]
           v_rad == radians(v_deg)
           u_rad == radians(u_deg)
       IN
       /\ warps' = warps \cup
            {warp(equi2pers, "im", i, count, v_rad, u_rad, TRUE),
             warp(equi2pers, "mask_e1", i, count, v_rad, u_rad, TRUE),
             warp(equi2pers, "mask_e2", i, count, v_rad, u_rad, TRUE),
             warp(equi2pers, "e1", i, count, v_rad, u_rad, FALSE),
             warp(equi2pers, "e2", i, count, v_rad, u_rad, FALSE)}
       /\ written' = written \cup
            {colour_output(i, count),
             output("mask_e1_planar_projections", i, count, "png", "uint8"),
             output("mask_e2_planar_projections", i, count, "png", "uint8"),
             output("e1_planar_projections", i, count, "exr", "float32"),
             output("e2_planar_projections", i, count, "exr", "float32")}
    /\ count' = count + 1
    /\ UNCHANGED <<cfgvars, pc, error, gridstate, dirs, idx, raster, auxstate>>

\* GT generator: read the panorama and look up its pose,
\* camera_to_worlds_panos[f"{i[:-4]}"]
LoadGT ==
    /\ pc = "files"
    /\ generator = "GT"
    /\ idx < Len(files_list)
    /\ accepted(files_list[idx + 1])
    /\ raster' = [raster EXCEPT !["im"] = files_list[idx + 1]]
    /\ IF drop4(files_list[idx + 1]) \in DOMAIN camera_to_worlds_panos.poses
       THEN count' = 0 /\ pc' = "directions" /\ error' = error
       ELSE Stop("KeyError") /\ count' = 0
    /\ UNCHANGED <<cfgvars, gridstate, dirs, idx, warps, written, auxstate>>

\* "exposure = 1.0; if i[0:3] == 'rhs': exposure = 0.009"
exposure_of(i) ==
    IF SubSeq(i, 1, IF Len(i) < 3 THEN Len(i) ELSE 3) = <<"r", "h", "s">>
    THEN "0.009" ELSE "1.0"

\* the "exposure" key of a frame: set inside the .exr branch only
frame_exposure(i) ==
    IF endswith(lower(i), EXR) /\ use_exposure THEN {exposure_of(i)} ELSE {}

\* frame = {"file_path": ..., "transform_matrix": ...}, then the optional keys
frame_record(i, k, pose) ==
    [file_path |-> colour_output(i, k),
     transform_matrix |-> pose,
     exposure |-> frame_exposure(i),
     mask_path |-> IF use_mask
                   THEN {output("mask/planar_projections", i, k, "png", "uint8")}
                   ELSE {}]

\* GT generator: one iteration of the direction loop
WarpGT ==
    /\ pc = "directions"
    /\ generator = "GT"
    /\ count < Len(yaw_pitch_pairs)
    /\ LET i == files_list[idx + 1]
           u_deg == yaw_pitch_pairs[count + 1][1]
           v_deg == yaw_pitch_pairs[count + 1][2]
           v_rad == radians(v_deg)
           u_rad == radians(u_deg)
           pers_image == warp(equi2pers, "im", i, count, v_rad, u_rad, clip_output)
           current_pano_camera_pose == camera_to_worlds_panos.poses[drop4(i)]
           perspective_camera_rotation ==
               perspective_rotation(current_pano_camera_pose.R,
                                    v_rad.pi_over_180, u_rad.pi_over_180)
           perspective_camera_pose ==
               perspective_pose(current_pano_camera_pose,
                                perspective_camera_rotation)
       IN
       IF mask_dir # "None" /\ raster["mask"] = <<"unassigned">>
       THEN \* "mask" is read before its first assignment
            /\ Stop("UnboundLocalError")
            /\ warps' = warps \cup {pers_image}
            /\ UNCHANGED <<written, raster, count, absent, frames,
                           camera_to_worlds_panos>>
       ELSE \E mask_isfile \in BOOLEAN :
            LET stale == IF mask_dir # "None"
                         THEN {warp(equi2pers, "mask", i, count, v_rad, u_rad, TRUE)}
                         ELSE {}
            IN
            /\ camera_to_worlds_panos' =
                  [camera_to_worlds_panos EXCEPT
                      !.poses[drop4(i)] = perspective_camera_pose.stored]
            /\ IF use_mask /\ ~mask_isfile
               THEN \* cv2.imread returns None, .astype("uint8") raises
                    /\ Stop("TypeError")
                    /\ absent' = "mask"
                    /\ warps' = warps \cup {pers_image} \cup stale
                    /\ written' = written \cup {colour_output(i, count)}
                    /\ UNCHANGED <<raster, count, frames>>
               ELSE /\ raster' = [raster EXCEPT !["mask"] = IF use_mask THEN i ELSE @]
                    /\ warps' = warps \cup {pers_image} \cup stale
                         \cup (IF use_mask
                               THEN {[warp(equi2pers, "mask", i, count, v_rad, u_rad,
                                           TRUE) EXCEPT !.src = i]}
                               ELSE {})
                    /\ written' = written \cup {colour_output(i, count)}
                         \cup (IF use_mask
                               THEN {output("mask/planar_projections", i, count,
                                            "png", "uint8")}
                               ELSE {})
                    /\ frames' = Append(frames,
                                        frame_record(i, count,
                                                     perspective_camera_pose.frame))
                    /\ count' = count + 1
                    /\ UNCHANGED <<pc, error, absent>>
    /\ UNCHANGED <<cfgvars, gridstate, dirs, idx, deleted, manifest>>

\* the direction loop of one panorama is exhausted: next listing entry
EndPanorama ==
    /\ pc = "directions"
    /\ count = Len(yaw_pitch_pairs)
    /\ idx' = idx + 1
    /\ pc' = "files"
    /\ UNCHANGED <<cfgvars, error, gridstate, dirs, count, raster, warps, written,
                   auxstate>>

\* the listing is exhausted: the generator returns; the GT generator first
\* dumps out = {..., "frames": frames} to output_dir / "transforms.json"
Finish ==
    /\ pc = "files"
    /\ idx = Len(files_list)
    /\ pc' = "done"
    /\ written' = IF generator = "GT"
                  THEN written \cup {[dir |-> "planar_projections",
                                      stem |-> <<"transforms">>, index |-> -1,
                                      ext |-> "json", dtype |-> "json"]}
                  ELSE written
    /\ manifest' = IF generator = "GT"
                   THEN Append(manifest, [fov |-> fov, frames |-> frames])
                   ELSE manifest
    /\ UNCHANGED <<cfgvars, error, gridstate, dirs, idx, count, raster, warps,
                   camera_to_worlds_panos, deleted, absent, frames>>

\* ------------------------------------------ ImagesToNerfstudioDataset.main
mainrest == <<callargs, mainargs, listing, files_list, gridstate, loopstate,
              auxstate>>

\* "require_cameras_exist = False; if self.colmap_model_path != default: ..."
CheckColmapPath ==
    /\ pc = "main"
    /\ IF colmap_model_path # "default"
       THEN IF ~skip_colmap
            THEN Stop("RuntimeError") /\ require_cameras_exist' = FALSE
            ELSE \E exists \in BOOLEAN :
                    IF ~exists
                    THEN Stop("RuntimeError") /\ require_cameras_exist' = FALSE
                    ELSE /\ pc' = "main_camera"
                         /\ error' = error
                         /\ require_cameras_exist' = TRUE
       ELSE /\ pc' = "main_camera"
            /\ error' = error
            /\ require_cameras_exist' = FALSE
    /\ UNCHANGED <<mainrest, camera_type, perspective_masks, perspective_hdrs>>

\* "if self.camera_type == 'equirectangular': ..." up to the call of the
\* standard generator, which then runs from its first statement
GeneratePlanar ==
    /\ pc = "main_camera"
    /\ IF camera_type = "equirectangular"
       THEN IF eval_data # "None"
            THEN Stop("ValueError")
            ELSE pc' = "validate" /\ error' = error
       ELSE pc' = "main_copy" /\ error' = error
    /\ UNCHANGED <<mainrest, mainstate>>

\* "self.data, perspective_masks, perspective_hdrs = ...": the generator's
\* "return output_dir, output_mask_dir, output_hdr_dir", then
\* "self.camera_type = 'perspective'"
AssignProjections ==
    /\ pc = "done"
    /\ perspective_masks' = IF mask_dir # "None" THEN "mask_planar_projections"
                            ELSE "None"
    /\ perspective_hdrs' = IF hdr_dir # "None" THEN "hdr_planar_projections"
                           ELSE "None"
    /\ camera_type' = "perspective"
    /\ pc' = "main_copy"
    /\ UNCHANGED <<mainrest, error, require_cameras_exist>>

\* "if not self.skip_image_processing:" copy_images(self.data), and the
\* evaluation images when eval_data is given
CopyImages ==
    /\ pc = "main_copy"
    /\ pc' = IF skip_image_processing THEN "main_list" ELSE "main_masks"
    /\ UNCHANGED <<mainrest, mainstate, error>>

\* "if perspective_masks is not None:" copy the masks
CopyMasks ==
    /\ pc = "main_masks"
    /\ IF perspective_masks = "unassigned"
       THEN Stop("UnboundLocalError")
       ELSE pc' = "main_hdrs" /\ error' = error
    /\ UNCHANGED <<mainrest, mainstate>>

\* "if perspective_hdrs is not None:" copy the HDR images
CopyHdrs ==
    /\ pc = "main_hdrs"
    /\ IF perspective_hdrs = "unassigned"
       THEN Stop("UnboundLocalError")
       ELSE pc' = "main_colmap" /\ error' = error
    /\ UNCHANGED <<mainrest, mainstate>>

\* "else: num_frames = len(list_images(self.data)); if num_frames == 0: raise"
ListImages ==
    /\ pc = "main_list"
    /\ \E num_frames \in 0..1 :
          IF num_frames = 0
          THEN Stop("RuntimeError")
          ELSE pc' = "main_colmap" /\ error' = error
    /\ UNCHANGED <<mainrest, mainstate>>

\* "if not self.skip_colmap: require_cameras_exist = True;
\*  if perspective_masks is not None: self._run_colmap(mask_path=...)"
RunColmap ==
    /\ pc = "main_colmap"
    /\ IF skip_colmap
       THEN /\ pc' = "main_cameras"
            /\ error' = error
            /\ require_cameras_exist' = require_cameras_exist
       ELSE /\ require_cameras_exist' = TRUE
            /\ IF perspective_masks = "unassigned"
               THEN Stop("UnboundLocalError")
               ELSE pc' = "main_cameras" /\ error' = error
    /\ UNCHANGED <<mainrest, camera_type, perspective_masks, perspective_hdrs>>

\* "self._export_depth(); if require_cameras_exist and not cameras.bin exists"
CheckCameras ==
    /\ pc = "main_cameras"
    /\ \E exists \in BOOLEAN :
          IF require_cameras_exist /\ ~exists
          THEN Stop("RuntimeError")
          ELSE pc' = "main_save" /\ error' = error
    /\ UNCHANGED <<mainrest, mainstate>>

\* "self._save_transforms(num_frames, ..., masks if perspective_masks is not
\*  None else None, hdrs if perspective_hdrs is not None else None, ...)"
SaveTransforms ==
    /\ pc = "main_save"
    /\ IF perspective_masks = "unassigned" \/ perspective_hdrs = "unassigned"
       THEN Stop("UnboundLocalError")
       ELSE pc' = "main_done" /\ error' = error
    /\ UNCHANGED <<mainrest, mainstate>>

\* ---------------------------------------------------------- specifications
Channels == {"im", "mask", "hdr", "mask_e1", "mask_e2", "e1", "e2"}

\* the state of the locals before the generator assigns them
UnassignedLocals ==
    /\ error = "none"
    /\ fov = 0
    /\ left_bound = 0
    /\ right_bound = 0
    /\ bound_arr = [i \in 0..2 |-> None]
    /\ yaw_pitch_pairs = << >>
    /\ dirs = {}
    /\ idx = 0
    /\ count = 0
    /\ raster = [c \in Channels |-> <<"unassigned">>]
    /\ warps = {}
    /\ written = {}
    /\ camera_to_worlds_panos = [loaded |-> FALSE, poses |-> << >>]
    /\ deleted = {}
    /\ absent = "none"
    /\ frames = << >>
    /\ manifest = << >>

\* the caller's variables at the call of a generator (main, line 58)
AtCall ==
    /\ camera_type = "equirectangular"
    /\ eval_data = "None"
    /\ skip_image_processing = FALSE
    /\ skip_colmap = FALSE
    /\ colmap_model_path = "default"
    /\ require_cameras_exist = FALSE
    /\ perspective_masks = "unassigned"
    /\ perspective_hdrs = "unassigned"

Unassigned ==
    /\ pc = "validate"
    /\ UnassignedLocals
    /\ AtCall

Crop(t, b, l, r) ==
    [i \in 0..3 |-> IF i = 0 THEN t ELSE IF i = 1 THEN b
                    ELSE IF i = 2 THEN l ELSE r]

\* the poses of the metadata file: a rotation, a translation and a bottom row
PoseA ==
    [R |-> Exact(rot_z(Deg(90))), t |-> <<Num(1), Num(2), Num(3)>>,
     bottom |-> <<Num(0), Num(0), Num(0), Num(1)>>]
PoseB ==
    [R |-> Exact(rot_x(Deg(45))), t |-> <<Num(-1), Num(0), Num(5)>>,
     bottom |-> <<Num(0), Num(0), Num(0), Num(1)>>]

\* the metadata file: one frame per panorama, its file_path the panorama's
\* name without extension
Metadata ==
    LET keys == {<<"a">>, <<"c">>, <<"d">>, <<"e">>, <<"r", "h", "s">>}
        pose(k) == IF k \in {<<"a">>, <<"d">>, <<"r", "h", "s">>} THEN PoseA
                   ELSE PoseB
    IN  [k \in keys |-> pose(k)]

\* the arguments of one call: options a generator does not take keep their
\* defaults
Options ==
    /\ generator \in {"standard", "two_exposures", "GT"}
    /\ mask_dir \in IF generator = "two_exposures" THEN {"None"}
                    ELSE {"None", "masks"}
    /\ hdr_dir \in IF generator = "standard" THEN {"None", "hdrs"} ELSE {"None"}
    /\ is_HDR \in IF generator = "standard" THEN BOOLEAN ELSE {FALSE}
    /\ HDR_planar_image_size \in
          IF generator = "standard" /\ hdr_dir # "None"
          THEN {planar_image_size, <<1024, 1024>>}
          ELSE {<<0, 0>>}
    /\ use_mask \in IF generator = "GT" THEN BOOLEAN ELSE {FALSE}
    /\ clip_output \in IF generator = "GT" THEN BOOLEAN ELSE {FALSE}
    /\ use_exposure \in IF generator = "GT" THEN BOOLEAN ELSE {FALSE}
    /\ metadata = IF generator = "GT" THEN Metadata ELSE << >>

\* grid specification: the direction builder alone, on a grid of crop specs
GridCropV == {5 * k : k \in (-1)..MaxCropIdx}
GridCropH == {25 * k : k \in 0..MaxSideIdx}
SamplesChoices == {8} \cup (13..MaxSamples)

GridInit ==
    /\ generator \in {"standard", "two_exposures", "GT"}
    /\ mask_dir = "None"
    /\ hdr_dir = "None"
    /\ is_HDR = FALSE
    /\ HDR_planar_image_size = <<0, 0>>
    /\ use_mask = FALSE
    /\ clip_output = FALSE
    /\ use_exposure = FALSE
    /\ metadata = << >>
    /\ listing = << >>
    /\ files_list = << >>
    /\ samples_per_im \in SamplesChoices
    /\ crop_factor \in {Crop(t, b, l, r) : t \in GridCropV, b \in GridCropV,
                                           l \in GridCropH, r \in GridCropH}
    /\ Unassigned

GridNext ==
    \/ Validate
    \/ LoadMetadata
    \/ HorizontalBounds
    \/ SelectPreset
    \/ CropBottom
    \/ CropTop
    \/ EmitRings

SpecGrid == GridInit /\ [][GridNext]_vars

\* whole-run specification: a few crop specs, every option, short listings
RunCrops ==
    {Crop(0, 0, 0, 0), Crop(20, 0, 25, 25),
     Crop(10, 30, 0, 0), Crop(0, 80, 0, 0), Crop(0, 0, 0, 125),
     Crop(-5, 0, 0, 0)}

Init ==
    /\ Options
    /\ listing = << >>
    /\ files_list = << >>
    /\ samples_per_im \in SamplesChoices
    /\ crop_factor \in RunCrops
    /\ Unassigned

Next ==
    \/ Validate
    \/ LoadMetadata
    \/ HorizontalBounds
    \/ SelectPreset
    \/ CropBottom
    \/ CropTop
    \/ EmitRings
    \/ MakeDirs
    \/ SkipFile
    \/ LoadStandard
    \/ WarpStandard
    \/ LoadTwoExposures
    \/ WarpTwoExposures
    \/ LoadGT
    \/ WarpGT
    \/ EndPanorama
    \/ Finish

Spec == Init /\ [][Next]_vars

\* main specification: every camera type and skip option of main, which
\* calls the standard generator for equirectangular input
MainCrops == {Crop(0, 0, 0, 0), Crop(10, 30, 0, 0), Crop(-5, 0, 0, 0)}

MainInit ==
    /\ pc = "main"
    /\ UnassignedLocals
    /\ generator = "standard"
    /\ mask_dir \in {"None", "masks"}
    /\ hdr_dir \in {"None", "hdrs"}
    /\ is_HDR \in BOOLEAN
    /\ HDR_planar_image_size \in
          IF hdr_dir # "None" THEN {planar_image_size, <<1024, 1024>>}
          ELSE {planar_image_size}
    /\ use_mask = FALSE
    /\ clip_output = FALSE
    /\ use_exposure = FALSE
    /\ metadata = << >>
    /\ listing = << >>
    /\ files_list = << >>
    /\ samples_per_im = 8
    /\ crop_factor \in MainCrops
    /\ camera_type \in {"equirectangular", "perspective", "fisheye"}
    /\ eval_data \in {"None", "eval"}
    /\ skip_image_processing \in BOOLEAN
    /\ skip_colmap \in BOOLEAN
    /\ colmap_model_path \in {"default", "custom"}
    /\ require_cameras_exist = FALSE
    /\ perspective_masks = "unassigned"
    /\ perspective_hdrs = "unassigned"

MainNext ==
    \/ CheckColmapPath
    \/ GeneratePlanar
    \/ Validate
    \/ HorizontalBounds
    \/ SelectPreset
    \/ CropBottom
    \/ CropTop
    \/ EmitRings
    \/ MakeDirs
    \/ SkipFile
    \/ LoadStandard
    \/ WarpStandard
    \/ EndPanorama
    \/ Finish
    \/ AssignProjections
    \/ CopyImages
    \/ CopyMasks
    \/ CopyHdrs
    \/ ListImages
    \/ RunColmap
    \/ CheckCameras
    \/ SaveTransforms

SpecMain == MainInit /\ [][MainNext]_vars

\* ================================================================ claims
Range(q) == {q[k] : k \in DOMAIN q}
Quarters(n) == 20 * n
ZeroCrop == \A i \in 0..3 : crop_factor[i] = 0
AllFinite(arr) == \A i \in 0..2 : ~arr[i].none

\* C1: in every generator, every warp of a panorama's channel for the
\* direction of index k uses roll 0, the pitch and the yaw of the k-th entry
\* of the direction list, the generator's field of view and bilinear mode.
C1_SameRotationAllChannels ==
    \A w \in warps :
        /\ w.index + 1 \in DOMAIN yaw_pitch_pairs
        /\ w.roll = 0
        /\ w.pitch = radians(yaw_pitch_pairs[w.index + 1][2])
        /\ w.yaw = radians(yaw_pitch_pairs[w.index + 1][1])
        /\ w.fov = fov
        /\ w.mode = "bilinear"

C1_Witness ==
    /\ generator = "standard"
    /\ \E a \in warps, b \in warps, c \in warps :
          /\ a.channel = "im" /\ b.channel = "mask" /\ c.channel = "hdr"
          /\ a.pano = b.pano /\ b.pano = c.pano
          /\ a.index = 1 /\ b.index = 1 /\ c.index = 1
          /\ a.yaw # a.pitch

\* C2: once the horizontal bounds are computed, left_bound is
\* -180 + 360*cropLeft (crop_factor[2]) when that fraction is positive and
\* -180 otherwise, and right_bound is 180 - 360*cropRight (crop_factor[3])
\* when that fraction is positive and 180 otherwise.
C2_LeftMovesLeftBound ==
    pc \in {"preset", "crop_bottom", "crop_top", "rings", "built"} =>
        /\ left_bound = IF crop_factor[2] > 0
                        THEN Deg(-180) + Turn(crop_factor[2]) ELSE Deg(-180)
        /\ right_bound = IF crop_factor[3] > 0
                         THEN Deg(180) - Turn(crop_factor[3]) ELSE Deg(180)

\* C3: with all four crop fractions zero, preset 8 yields exactly the 8
\* directions pitch 0 at yaw -180, -90, 0, 90 and pitch 45 and -45 at yaw
\* -180, 0; preset 14 yields exactly the 14 directions pitch 0 at yaw -180,
\* -120, -60, 0, 60, 120 and pitch 45 and -45 at yaw -180, -90, 0, 90.
C3_Directions(mid, outer) ==
    {<<Deg(y), Deg(0)>> : y \in mid}
    \cup {<<Deg(y), Deg(45)>> : y \in outer}
    \cup {<<Deg(y), Deg(-45)>> : y \in outer}

C3_PresetZeroCrop ==
    (pc = "built" /\ ZeroCrop) =>
        /\ samples_per_im = 8 =>
              /\ Range(yaw_pitch_pairs) =
                    C3_Directions({-180, -90, 0, 90}, {-180, 0})
              /\ Len(yaw_pitch_pairs) = 8
        /\ samples_per_im = 14 =>
              /\ Range(yaw_pitch_pairs) =
                    C3_Directions({-180, -120, -60, 0, 60, 120},
                                  {-180, -90, 0, 90})
              /\ Len(yaw_pitch_pairs) = 14

C3_Witness ==
    /\ pc = "built"
    /\ ZeroCrop
    /\ samples_per_im = 14
    /\ Len(yaw_pitch_pairs) = 14

\* C4: for preset 8 or 14 the direction list is the middle ring (index 1),
\* then the upper ring (index 2), then the lower ring (index 0); a ring that
\* is not removed contributes the yaws left_bound, left_bound + step, ...
\* strictly below right_bound, each with the ring's pitch, and a removed
\* ring contributes nothing.
C4_Step(r) ==
    IF samples_per_im = 8 THEN (IF r = 1 THEN 90 ELSE 180)
    ELSE (IF r = 1 THEN 60 ELSE 90)

C4_Yaws(r) ==
    {y \in {left_bound + k * Deg(C4_Step(r)) : k \in 0..6} : y < right_bound}

C4_Ring(r) ==
    IF bound_arr[r].none THEN << >>
    ELSE [k \in 1..Cardinality(C4_Yaws(r)) |->
            <<left_bound + (k - 1) * Deg(C4_Step(r)), bound_arr[r].val>>]

C4_EmissionOrder ==
    (pc = "built" /\ samples_per_im \in {8, 14}) =>
        yaw_pitch_pairs = C4_Ring(1) \o C4_Ring(2) \o C4_Ring(0)

C4_Witness ==
    /\ pc = "built"
    /\ samples_per_im = 8
    /\ crop_factor = Crop(0, 30, 0, 25)
    /\ bound_arr[2].none
    /\ Len(yaw_pitch_pairs) = 5
    /\ yaw_pitch_pairs[4][2] = bound_arr[0].val

\* C5: for a samples_per_im other than 8 and 14 the direction list is
\* empty and the builder raises nothing; the run creates its output
\* directories and neither warps nor writes any perspective image.
C5_UnsupportedPresetEmpty ==
    samples_per_im \notin {8, 14} =>
        /\ yaw_pitch_pairs = << >>
        /\ error # "TypeError"
        /\ pc = "built" => error = "none"
        /\ warps = {}
        /\ {o \in written : o.ext # "json"} = {}
        /\ pc \in {"files", "directions", "done"} =>
              "planar_projections" \in dirs

C5_Witness ==
    /\ samples_per_im \notin {8, 14}
    /\ pc = "done"
    /\ idx = 2
    /\ raster["im"] # <<"unassigned">>
    /\ "planar_projections" \in dirs
    /\ yaw_pitch_pairs = << >>

\* C6: a vertical side whose fraction is <= 0 is skipped: the step of that
\* side leaves bound_arr as it was, and with top = 0 and bottom = 0 the
\* solver hands (-45, 0, 45) on unchanged.
C6_ZeroSideSkipped ==
    [][ /\ (pc = "crop_bottom" /\ crop_factor[1] <= 0) =>
              (pc' = "crop_top" /\ bound_arr' = bound_arr)
        /\ (pc = "crop_top" /\ crop_factor[0] <= 0) =>
              (pc' = "rings" /\ bound_arr' = bound_arr)
        /\ (pc = "crop_top" /\ crop_factor[0] <= 0 /\ crop_factor[1] <= 0) =>
              bound_arr' = [i \in 0..2 |-> Active(Deg(<<-45, 0, 45>>[i + 1]))]
      ]_vars

C6_Witness ==
    /\ pc = "rings"
    /\ crop_factor[0] = 0
    /\ crop_factor[1] = 0
    /\ bound_arr = InitialBounds

\* C7: the bottom pass with fraction f and field of view F,
\* start = 90 - 180f - F/2, removes every entry > start + F/2, clamps the
\* highest remaining entry > start to start, subtracts diff / 2^gap from
\* every lower entry and changes nothing else; f = 0.2, F = 120 maps
\* (-45, 0, 45) to (-57.75, -25.5, -6).
C7_BottomResult(in, out, F, c) ==
    LET start == Deg(90) - Chopped(c) - HalfFov(F)
        removed == {i \in 0..2 : in[i].val > start + HalfFov(F)}
        hits == {i \in (0..2) \ removed : in[i].val > start}
    IN  \A i \in 0..2 :
          IF i \in removed THEN out[i].none
          ELSE IF hits = {} THEN out[i] = in[i]
          ELSE LET p == CHOOSE q \in hits : \A h \in hits : h <= q IN
               IF i = p THEN out[i] = Active(start)
               ELSE IF i < p
               THEN /\ ~out[i].none
                    /\ out[i].val * (2 ^ (p - i)) =
                          in[i].val * (2 ^ (p - i)) - (in[p].val - start)
               ELSE out[i] = in[i]

C7_BottomPass ==
    [][ (pc = "crop_bottom" /\ crop_factor[1] > 0) =>
           /\ pc' = "crop_top"
           /\ C7_BottomResult(bound_arr, bound_arr', fov, crop_factor[1])
           /\ (crop_factor[1] = 20 /\ fov = 120) =>
                 bound_arr' = [i \in 0..2 |->
                     Active(Quarters(<<-231, -102, -24>>[i + 1]))]
      ]_vars

C7_Witness ==
    /\ pc = "crop_top"
    /\ crop_factor[1] = 20
    /\ fov = 120
    /\ bound_arr[0] = Active(Quarters(-231))
    /\ bound_arr[1] = Active(Quarters(-102))
    /\ bound_arr[2] = Active(Quarters(-24))

\* C8: the top pass with fraction f and field of view F,
\* start = -90 + 180f + F/2, on a triple of finite entries removes every
\* entry < start - F/2, clamps the lowest remaining entry < start to start,
\* adds diff / 2^gap to every higher entry and changes nothing else;
\* f = 0.2, F = 120 maps (-45, 0, 45) to (6, 25.5, 57.75).
C8_TopResult(in, out, F, c) ==
    LET start == Deg(-90) + Chopped(c) + HalfFov(F)
        removed == {i \in 0..2 : in[i].val < start - HalfFov(F)}
        hits == {i \in (0..2) \ removed : in[i].val < start}
    IN  \A i \in 0..2 :
          IF i \in removed THEN out[i].none
          ELSE IF hits = {} THEN out[i] = in[i]
          ELSE LET p == CHOOSE q \in hits : \A h \in hits : q <= h IN
               IF i = p THEN out[i] = Active(start)
               ELSE IF i > p
               THEN /\ ~out[i].none
                    /\ out[i].val * (2 ^ (i - p)) =
                          in[i].val * (2 ^ (i - p)) + (start - in[p].val)
               ELSE out[i] = in[i]

C8_TopPass ==
    [][ (pc = "crop_top" /\ crop_factor[0] > 0 /\ AllFinite(bound_arr)) =>
           /\ pc' = "rings"
           /\ C8_TopResult(bound_arr, bound_arr', fov, crop_factor[0])
           /\ (crop_factor[0] = 20 /\ crop_factor[1] = 0 /\ fov = 120) =>
                 bound_arr' = [i \in 0..2 |->
                     Active(Quarters(<<24, 102, 231>>[i + 1]))]
      ]_vars

C8_Witness ==
    /\ pc = "rings"
    /\ crop_factor[0] = 20
    /\ crop_factor[1] = 0
    /\ fov = 120
    /\ bound_arr[0] = Active(Quarters(24))
    /\ bound_arr[1] = Active(Quarters(102))
    /\ bound_arr[2] = Active(Quarters(231))

\* C9: when the top and the bottom fraction are both in (0, 1], the solver
\* runs the bottom pass, then the top pass on its output, and returns a
\* triple: the run reaches the ring emission and no error is raised.
C9_BothPassesReturn ==
    (crop_factor[0] > 0 /\ crop_factor[1] > 0) =>
        /\ error # "TypeError"
        /\ pc # "raised"

\* C10: after the bottom pass, the top pass, or both, the entries of
\* bound_arr that are still finite are in ascending order by index.
C10_FiniteAscending ==
    pc \in {"crop_top", "rings", "built"} =>
        \A i \in 0..2, j \in 0..2 :
            (i < j /\ ~bound_arr[i].none /\ ~bound_arr[j].none) =>
                bound_arr[i].val <= bound_arr[j].val

\* C11: in each generator a crop fraction < 0 or > 1 ends the run with
\* exit status 1 before the metadata is loaded, before any output directory
\* is created or deleted and before any image is read or written; with all
\* four fractions in [0, 1] that exit never happens.
OutOfRange == \E i \in 0..3 : crop_factor[i] < 0 \/ crop_factor[i] > 100

C11_InvalidCropExitsFirst ==
    /\ error = "exit1" =>
          /\ OutOfRange
          /\ pc = "exit"
          /\ ~camera_to_worlds_panos.loaded
          /\ dirs = {} /\ deleted = {}
          /\ \A c \in Channels : raster[c] = <<"unassigned">>
          /\ warps = {} /\ written = {}
          /\ frames = << >> /\ manifest = << >>
    /\ (OutOfRange /\ pc # "validate") => error = "exit1"
    /\ ~OutOfRange => error # "exit1"

C11_Witness ==
    /\ generator = "GT"
    /\ crop_factor[0] < 0
    /\ pc = "exit"
    /\ error = "exit1"
    /\ ~camera_to_worlds_panos.loaded
    /\ dirs = {} /\ deleted = {}

\* C12: when a companion mask, HDR or exposure file of a panorama is found
\* absent, the run has aborted at that panorama: no output of any channel
\* exists for that panorama and none for a later panorama of the processing
\* order.
C12_MissingCompanionAborts ==
    absent # "none" =>
        /\ pc = "raised"
        /\ \A j \in (idx + 1)..Len(files_list) :
              \A o \in written : o.stem # drop4(files_list[j])

\* C13: every output image of an accepted panorama is named
\* <source-stem>_<k>.<ext>: the stem is the panorama's file name without its
\* extension and without the separating dot, and k is the 0-based position
\* of the direction in the direction list.
LastDot(i) == CHOOSE k \in DOMAIN i : i[k] = "." /\ \A j \in (k + 1)..Len(i) : i[j] # "."
SourceStem(i) == SubSeq(i, 1, LastDot(i) - 1)

C13_OutputNames ==
    \A o \in written :
        o.ext # "json" =>
            /\ \E j \in DOMAIN files_list :
                  /\ accepted(files_list[j])
                  /\ o.stem = SourceStem(files_list[j])
            /\ o.index + 1 \in DOMAIN yaw_pitch_pairs

\* C14: every output whose pixel data is floating point (EXR colour, the HDR
\* channel, the exposures e1 and e2) is written with extension "exr", and
\* every output written with extension "png" holds 8-bit data, for every
\* combination of hdr_dir and is_HDR.
C14_FloatOutputsAreExr ==
    \A o \in written :
        /\ o.dtype = "float32" => o.ext = "exr"
        /\ o.ext = "png" => o.dtype = "uint8"

\* the pose the metadata file holds for the panorama a frame was derived from
PanoPose(f) == metadata[f.file_path.stem]
\* the direction a frame was derived for
FrameDirection(f) == yaw_pitch_pairs[f.file_path.index + 1]

\* C15: in ground-truth mode every frame's transform_matrix has the
\* translation column and the bottom row of its panorama's pose, so the
\* frames of one panorama differ in the rotation block only; the poses read
\* from the metadata are not modified by deriving frames.
C15_TranslationKept ==
    /\ \A k \in DOMAIN frames :
          /\ frames[k].transform_matrix.t = PanoPose(frames[k]).t
          /\ frames[k].transform_matrix.bottom = PanoPose(frames[k]).bottom
    /\ camera_to_worlds_panos.loaded => camera_to_worlds_panos.poses = metadata

C15_Witness ==
    /\ generator = "GT"
    /\ Len(frames) >= 2
    /\ frames[1].file_path.stem = frames[2].file_path.stem
    /\ frames[1].transform_matrix.R.exact /\ frames[2].transform_matrix.R.exact
    /\ frames[1].transform_matrix.R # frames[2].transform_matrix.R
    /\ frames[2].transform_matrix.R # PanoPose(frames[2]).R
    /\ frames[2].transform_matrix.t = PanoPose(frames[2]).t
    /\ frames[2].transform_matrix.t # <<Num(0), Num(0), Num(0)>>

\* C16: in ground-truth mode the frame of the direction yaw = 0, pitch = 0
\* has the rotation of its panorama: the panorama rotation times the inverse
\* of the Euler rotation of (pitch, -yaw, 0) is the panorama rotation.
C16_ForwardKeepsRotation ==
    \A k \in DOMAIN frames :
        FrameDirection(frames[k]) = <<0, 0>> =>
            frames[k].transform_matrix.R = PanoPose(frames[k]).R

C16_Witness ==
    /\ generator = "GT"
    /\ \E k \in DOMAIN frames, j \in DOMAIN frames :
          /\ FrameDirection(frames[k]) = <<0, 0>>
          /\ FrameDirection(frames[j]) = <<0, 0>>
          /\ frames[k].transform_matrix.R = PoseA.R
          /\ frames[j].transform_matrix.R = PoseB.R
          /\ PoseA.R # Exact(Identity3) /\ PoseB.R # Exact(Identity3)

\* the panorama file a frame was derived from
FrameSource(f) ==
    CHOOSE i \in Range(files_list) : accepted(i) /\ drop4(i) = f.file_path.stem
StartsWithRhs(i) == Len(i) >= 3 /\ SubSeq(i, 1, 3) = <<"r", "h", "s">>

\* C17: in ground-truth mode with use_exposure set, every frame record of
\* the manifest carries an exposure: 0.009 when the source file name starts
\* with "rhs" and 1.0 otherwise; without use_exposure no frame record carries
\* an exposure.
C17_ExposurePerFrame ==
    \A d \in DOMAIN manifest : \A k \in DOMAIN manifest[d].frames :
        LET f == manifest[d].frames[k] IN
        f.exposure = IF ~use_exposure THEN {}
                     ELSE IF StartsWithRhs(FrameSource(f)) THEN {"0.009"}
                     ELSE {"1.0"}

\* C18: in every generator and for every option value, an 8-bit colour
\* panorama is warped with output clipping on, and an HDR raster, an exposure
\* raster or a floating-point (EXR) colour panorama with output clipping off.
C18_ClipByKind ==
    \A w \in warps :
        /\ w.channel = "im" => w.clip = ~endswith(lower(w.pano), EXR)
        /\ w.channel \in {"hdr", "e1", "e2"} => w.clip = FALSE

\* the panorama image files of the directory, whatever their listing order
Panoramas == {i \in Range(listing) : accepted(i)}

\* C19: in ground-truth mode the manifest is written once, when the run
\* returns, and its frames list holds exactly one record per (panorama image
\* file, direction) pair, ordered by file name and, within a panorama, by
\* direction index: a list the set of files determines, not the order of
\* the listing.
C19_ManifestOrder ==
    /\ Len(manifest) <= 1
    /\ manifest # << >> => pc = "done" /\ manifest[1].frames = frames
    /\ (generator = "GT" /\ pc = "done") => Len(manifest) = 1
    /\ \A d \in DOMAIN manifest :
          LET fr == manifest[d].frames IN
          /\ Len(fr) = Cardinality(Panoramas) * Len(yaw_pitch_pairs)
          /\ \A i \in Panoramas : \A k \in 0..(Len(yaw_pitch_pairs) - 1) :
                Cardinality({p \in DOMAIN fr :
                                fr[p].file_path = colour_output(i, k)}) = 1
          /\ \A p \in DOMAIN fr : \A q \in DOMAIN fr :
                q = p + 1 =>      \* each record precedes its successor
                   \/ str_less(FrameSource(fr[p]), FrameSource(fr[q]))
                   \/ /\ FrameSource(fr[p]) = FrameSource(fr[q])
                      /\ fr[p].file_path.index < fr[q].file_path.index

C19_Witness ==
    /\ generator = "GT"
    /\ pc = "done"
    /\ Len(manifest) = 1
    /\ Len(listing) = 2
    /\ str_less(listing[2], listing[1])
    /\ Cardinality(Panoramas) = 2
    /\ Len(manifest[1].frames) = 2 * Len(yaw_pitch_pairs)
    /\ Len(yaw_pitch_pairs) > 1
    /\ FrameSource(manifest[1].frames[1]) = listing[2]

\* C20: every pitch that reaches the direction list lies in [-90, 90]
\* degrees, for every pair of top and bottom fractions in [0, 1] for which
\* the vertical solver returns, and for both presets.
C20_PitchInRange ==
    \A k \in DOMAIN yaw_pitch_pairs :
        /\ Deg(-90) <= yaw_pitch_pairs[k][2]
        /\ yaw_pitch_pairs[k][2] <= Deg(90)

\* C21: in the standard generator the colour projection and the mask
\* projection of one frame (same panorama, same index) have the same raster
\* size, planar_image_size, with or without an HDR directory and whatever
\* HDR_planar_image_size is.
C21_MaskSizeMatchesColour ==
    generator = "standard" =>
        \A a \in warps : \A b \in warps :
            (a.channel = "im" /\ b.channel = "mask"
             /\ a.pano = b.pano /\ a.index = b.index) =>
                /\ a.size = planar_image_size
                /\ b.size = a.size

\* C22: in ground-truth mode, for every mask_dir and use_mask, no mask is
\* read before it is assigned, and every warp of a mask uses the raster
\* loaded for the panorama being processed.
C22_MaskLoadedBeforeWarp ==
    generator = "GT" =>
        /\ error # "UnboundLocalError"
        /\ \A w \in warps : w.channel = "mask" => w.src = w.pano


\* C23: in main, for every camera type and every combination of
\* skip_image_processing and skip_colmap, perspective_masks and
\* perspective_hdrs are assigned before each read, so main never fails on an
\* unassigned variable
C23_AssignedBeforeRead ==
    /\ error # "UnboundLocalError"
    /\ pc \in {"main_masks", "main_hdrs", "main_save"} =>
          /\ perspective_masks # "unassigned"
          /\ perspective_hdrs # "unassigned"
    /\ (pc = "main_colmap" /\ ~skip_colmap) => perspective_masks # "unassigned"

\* C24: in the standard generator with an HDR directory and is_HDR set, and
\* in the two-exposure generator, the unsupported-format error is raised only
\* for a panorama file whose extension is outside the set the loop's filter
\* recognizes: a file that passes the filter never ends the run with it
C24_FormatErrorOutsideFilter ==
    (generator \in {"standard", "two_exposures"} /\ error = "UnsupportedFormat") =>
        ~accepted(raster["im"])

====
